---------------------------- MODULE Spec2Model ----------------------------
(***************************************************************************)
(* ORBIT client: the Cognitive Canvas store (useCanvasState.ts), the       *)
(* offline hook and its IndexedDB queues (useOffline, OfflineStorage) and  *)
(* the service worker (public/sw.js).                                      *)
(*                                                                         *)
(* Every async store operation is split at its awaits: the call runs up to *)
(* the first await, and one further action runs for each settled promise   *)
(* or fired timer.  Everything between two awaits is one atomic step, as   *)
(* on the JavaScript event loop.                                           *)
(***************************************************************************)
EXTENDS Integers, Sequences, FiniteSets, Bags, TLC

Null == "null"

(***************************************************************************)
(* Bounds of the model.                                                    *)
(***************************************************************************)
\* selectAction calls that may be in flight at once
MaxSelect == 1
\* completeTask calls that may be in flight at once
MaxComplete == 1
\* length of the local task list
MaxTasks == 1
\* syncPendingData calls that may be in flight at once
MaxSyncs == 2
\* records written to the pending stores in one run
MaxSaves == 2
\* fetch handlers that wait for the network at the same time
MaxFetches == 1
\* push messages delivered
MaxPushes == 3
\* wsService.on calls made
MaxSubs == 3
\* last instant of the clock, ms
MaxNow == 600000
\* the clock advances in steps of TickMs ms
TickMs == 300000

(***************************************************************************)
(* Values.                                                                 *)
(***************************************************************************)
CanvasStates ==
    {"idle", "inputting", "listening", "thinking", "responding",
     "reflecting", "identity", "silent"}

CoreStates == {"idle", "listening", "thinking", "acting", "silent"}

\* useCanvasState.ts:102  silenceThreshold: 5 * 60 * 1000
silenceThreshold == 300000

\* interpretation.suggested_tasks as the backend may return it (id, title);
\* Null: the task carries no id
SuggestedTasks ==
    {<< >>,
     <<[id |-> "a1", title |-> "walk"]>>,
     <<[id |-> "a1", title |-> "walk"], [id |-> Null, title |-> "read"]>>}

\* ids selectAction may be called with
ActionIds == {"a1", "action-1", "zz"}

\* messages of the Error the response interceptor rejects with (api.ts:37-42)
ErrorMessages == {"Network Error"}

\* ids the backend gives to intents and tasks; Null: the field is missing
IntentIds == {"i1"}
ServerTaskIds == {"s1"}

\* transcripts the recogniser may deliver
Transcripts == {"", "  ", "go"}
\* String.prototype.trim
trim(t) == IF t = "  " THEN "" ELSE t

TaskNode(id, title, status) == [id |-> id, title |-> title, status |-> status]

\* task lists GET /tasks/ may return (id, title, backend status)
BackendTasks ==
    {<< >>,
     <<[id |-> "s1", title |-> "walk", status |-> "pending"]>>,
     <<[id |-> "s1", title |-> "walk", status |-> "pending"],
       [id |-> "s2", title |-> "mail", status |-> "completed"]>>}

VARIABLES
    \* ---- canvas store (useCanvasState.ts) ----
    state,            \* CanvasState
    coreState,        \* CoreState
    tasks,            \* TaskNode[]
    transcript,
    isTranscribing,
    aiResponse,       \* AIResponse | null: None or Some(response)
    lastInteraction,  \* ms
    error,            \* string | null
    now,              \* Date.now()
    sub,              \* the submitInput call in flight
    sel,              \* the selectAction calls in flight
    cmp,              \* the completeTask calls in flight
    fetching,         \* a fetchTasks call is in flight
    \* ---- device and backend ----
    online,           \* navigator.onLine
    serverUp,         \* the backend answers requests with success
    acked,            \* bag of the requests the backend answered with success
    \* ---- IndexedDB 'orbit-offline' (OfflineStorage, sw.js openDB) ----
    pending_intents,  \* object store, keyPath id, autoIncrement
    pending_tasks,    \* object store, keyPath id
    nextKey,          \* key generator of pending_intents
    saves,            \* records written so far (createdAt)
    \* ---- page: useOffline ----
    sync,             \* the syncPendingData calls in flight
    \* ---- service worker: background sync ----
    syncTags,         \* tags registered with the SyncManager
    swIntents,        \* the running syncOfflineIntents
    swTasks,          \* the running syncOfflineTasks
    \* ---- service worker: fetch and push (sw.js) ----
    caches,           \* cache name -> entries, one per URL
    fetches,          \* the fetch handlers waiting for the network
    last,             \* the last request answered: None or Some(exchange)
    received,         \* core URLs the page got an ok network response for
    permission,       \* Notification.permission
    shown,            \* the showNotification calls made
    \* ---- WebSocketService (websocket.ts) ----
    socket,           \* this.socket: Null or "open"
    handlers,         \* this.handlers: event type -> handlers, in push order
    subs,             \* the on() calls made, each with its unsubscribe closure
    delivered         \* the handler calls of the last dispatchEvent, in order

storeVars ==
    <<state, coreState, tasks, transcript, isTranscribing, aiResponse,
      lastInteraction, error>>

canvasVars == <<storeVars, now, sub, sel, cmp, fetching>>

offlineVars ==
    <<online, serverUp, acked, pending_intents, pending_tasks, nextKey, saves,
      sync, syncTags, swIntents, swTasks>>

fetchVars == <<caches, fetches, last, received>>

pushVars == <<permission, shown>>

workerVars == <<fetchVars, pushVars>>

socketVars == <<socket, handlers, subs, delivered>>

vars == <<canvasVars, offlineVars, workerVars, socketVars>>

\* T | null as a sequence of at most one element
None == << >>
Some(x) == <<x>>

\* ---- service worker values (sw.js) ----
STATIC_CACHE == "orbit-v1-static"
DYNAMIC_CACHE == "orbit-v1-dynamic"
OFFLINE_CACHE == "orbit-v1-offline"
CacheNames == {STATIC_CACHE, DYNAMIC_CACHE, OFFLINE_CACHE}

\* A pathname is the sequence of its pieces: "/api/tasks/" is
\* <<"/api", "/tasks", "/">>, "/assets/index.js" is <<"/assets", "/index", ".js">>.
\* A piece is a slash followed by a name, a lone slash, or an extension.
StaticExtensions ==
    {".js", ".css", ".png", ".jpg", ".jpeg", ".gif", ".svg", ".ico", ".woff",
     ".woff2", ".ttf", ".eot"}
Extensions == StaticExtensions \cup {".html", ".json"}

Url(pathname, search) == [pathname |-> pathname, search |-> search]

STATIC_ASSETS ==
    {Url(<<"/">>, ""), Url(<<"/index", ".html">>, ""),
     Url(<<"/manifest", ".json">>, ""), Url(<<"/offline", ".html">>, "")}

OFFLINE_CAPABLE_ROUTES ==
    {<<"/api", "/v1", "/intent", "/active">>,
     <<"/api", "/v1", "/planner", "/tasks", "/today">>,
     <<"/api", "/v1", "/memory", "/recent">>}

\* apiClient.get('/tasks/') and apiClient.get(`/intent/?limit=${limit}`)
\* under baseURL '/api'
getTasksUrl == Url(<<"/api", "/tasks", "/">>, "")
getIntentsUrl == Url(<<"/api", "/intent", "/">>, "?limit=20")
CoreUrls == {getTasksUrl, getIntentsUrl}

Get(url, mode) == [method |-> "GET", url |-> url, mode |-> mode]

\* the requests the worker's fetch listener is given
Requests ==
    {Get(getTasksUrl, "cors"), Get(getIntentsUrl, "cors"),
     Get(Url(<<"/api", "/v1", "/intent", "/active">>, ""), "cors"),
     Get(Url(<<"/api", "/static", "/logo", ".png">>, ""), "no-cors"),
     Get(Url(<<"/assets", "/index", ".js">>, ""), "no-cors"),
     Get(Url(<<"/">>, ""), "navigate"),
     Get(Url(<<"/">>, ""), "cors"),
     [method |-> "POST", url |-> getTasksUrl, mode |-> "cors"]}

\* what the network gives: None when fetch throws, else a status and a body
Bodies == {"b1", "b2"}
NetworkOutcomes ==
    {None} \cup {Some([status |-> 200, body |-> b]) : b \in Bodies}
           \cup {Some([status |-> 404, body |-> "not found"])}

Response(status, body, offline) ==
    [status |-> status, body |-> body, offline |-> offline]

Entry(url, status, body) == [url |-> url, status |-> status, body |-> body]

\* install: cache.addAll(STATIC_ASSETS) into the static cache
Precached == {Entry(url, 200, "b1") : url \in STATIC_ASSETS}

FetchIdle == [pc |-> "idle", request |-> None]

\* ---- WebSocketService values (websocket.ts, types/index.ts) ----
\* WSEvent.type, two of its five values
EventTypes == {"task_updated", "thought_signal"}
\* what on() is given as eventType
SubscribedTypes == EventTypes \cup {"*"}
\* handler functions: on() compares them by identity
Handlers == {"h", "g"}

\* push payloads: event.data?.json(), None when the push carries no data
Priorities == {"low", "normal", "urgent"}
PushData ==
    {None} \cup {Some([title |-> "Focus", priority |-> p]) :
                     p \in Priorities \cup {Null}}
Permissions == {"default", "granted", "denied"}

\* created, interpreted: how api.createIntent and api.interpretIntent settled
\* clean: no other store operation ran since the call; tasks0, ai0: tasks and
\* aiResponse at the call
SubIdle == [pc |-> "idle", created |-> Null, interpreted |-> Null,
            intentId |-> Null, clean |-> TRUE, tasks0 |-> None, ai0 |-> None]
SelIdle == [pc |-> "idle", actionId |-> Null, title |-> Null, tasks |-> << >>,
            how |-> Null]
CmpIdle == [pc |-> "idle", taskId |-> Null, tasks |-> << >>, failed |-> FALSE]

\* a sync in progress: the records read that are still to be sent; the head
\* of the list is the one whose request is in flight
SyncIdle == [pc |-> "idle", intents |-> << >>, tasks |-> << >>]

Init ==
    /\ state = "idle"
    /\ coreState = "idle"
    /\ tasks = << >>
    /\ transcript = ""
    /\ isTranscribing = FALSE
    /\ aiResponse = None
    /\ lastInteraction = 0
    /\ error = Null
    /\ now = 0
    /\ sub = SubIdle
    /\ sel = [i \in 1..MaxSelect |-> SelIdle]
    /\ cmp = [i \in 1..MaxComplete |-> CmpIdle]
    /\ fetching = FALSE
    /\ online = TRUE
    /\ serverUp = TRUE
    /\ acked = EmptyBag
    /\ pending_intents = {}
    /\ pending_tasks = {}
    /\ nextKey = 1
    /\ saves = 0
    /\ sync = [k \in 1..MaxSyncs |-> SyncIdle]
    /\ syncTags = {"sync-intents", "sync-tasks"}
    /\ swIntents = SyncIdle
    /\ swTasks = SyncIdle
    /\ caches = [name \in CacheNames |->
                    IF name = STATIC_CACHE THEN Precached ELSE {}]
    /\ fetches = [i \in 1..MaxFetches |-> FetchIdle]
    /\ last = None
    /\ received = {}
    /\ permission = "default"
    /\ shown = << >>
    /\ socket = Null
    /\ handlers = [eventType \in SubscribedTypes |-> << >>]
    /\ subs = << >>
    /\ delivered = << >>


(***************************************************************************)
(* Canvas store, useCanvasState.ts                                         *)
(***************************************************************************)
\* mapToCoreState
mapToCoreState(s) ==
    CASE s = "listening" -> "listening"
      [] s = "thinking" -> "thinking"
      [] s = "responding" -> "acting"
      [] s \in {"silent", "reflecting", "identity"} -> "silent"
      [] OTHER -> "idle"

\* recordInteraction's new state: get().state === 'silent' ? 'idle' : get().state
wakeState(s) == IF s = "silent" THEN "idle" ELSE s

\* Bookkeeping of the submitInput call: another store operation ran.  A call
\* in flight is no longer alone; a settled one is forgotten.
Other(s) ==
    IF s.pc = "settled" THEN SubIdle
    ELSE IF s.pc = "idle" THEN s
    ELSE [s EXCEPT !.clean = FALSE, !.tasks0 = None, !.ai0 = None]

SubInFlight == sub.pc \in {"createIntent", "interpretIntent"}

setState(s) ==
    /\ state' = wakeState(s)
    /\ coreState' = mapToCoreState(s)
    /\ lastInteraction' = now
    /\ sub' = Other(sub)
    /\ UNCHANGED <<tasks, transcript, isTranscribing, aiResponse, error,
                   now, sel, cmp, fetching>>
    /\ UNCHANGED <<offlineVars, workerVars, socketVars>>

setError(e) ==
    /\ error' = e
    /\ sub' = Other(sub)
    /\ UNCHANGED <<state, coreState, tasks, transcript, isTranscribing,
                   aiResponse, lastInteraction, now, sel, cmp, fetching>>
    /\ UNCHANGED <<offlineVars, workerVars, socketVars>>

openInput ==
    /\ state' = wakeState("inputting")
    /\ coreState' = "idle"
    /\ error' = Null
    /\ lastInteraction' = now
    /\ sub' = Other(sub)
    /\ UNCHANGED <<tasks, transcript, isTranscribing, aiResponse,
                   now, sel, cmp, fetching>>
    /\ UNCHANGED <<offlineVars, workerVars, socketVars>>

closeInput ==
    /\ state' = "idle"
    /\ coreState' = "idle"
    /\ sub' = Other(sub)
    /\ UNCHANGED <<tasks, transcript, isTranscribing, aiResponse,
                   lastInteraction, error, now, sel, cmp, fetching>>
    /\ UNCHANGED <<offlineVars, workerVars, socketVars>>

\* submitInput up to its first await: api.createIntent is sent
submitInputCall ==
    /\ ~SubInFlight
    /\ state' = wakeState("thinking")
    /\ coreState' = "thinking"
    /\ error' = Null
    /\ lastInteraction' = now
    /\ sub' = [SubIdle EXCEPT !.pc = "createIntent",
                               !.tasks0 = Some(tasks),
                               !.ai0 = Some(aiResponse)]

submitInput ==
    /\ submitInputCall
    /\ UNCHANGED <<tasks, transcript, isTranscribing, aiResponse,
                   now, sel, cmp, fetching>>
    /\ UNCHANGED <<offlineVars, workerVars, socketVars>>

\* a catch block that also drops the response on screen
submitInputCatch_dropsResponse(msg) ==
    /\ error' = msg
    /\ state' = "idle"
    /\ coreState' = "idle"
    /\ aiResponse' = None
    /\ sub' = [sub EXCEPT !.pc = "settled",
                          !.created = IF sub.pc = "createIntent"
                                      THEN "rejected" ELSE @,
                          !.interpreted = IF sub.pc = "interpretIntent"
                                          THEN "rejected" ELSE @]
    /\ UNCHANGED <<tasks, transcript, isTranscribing,
                   lastInteraction, now, sel, cmp, fetching>>

\* the catch block of submitInput
submitInputCatch(msg) ==
    /\ error' = msg
    /\ state' = "idle"
    /\ coreState' = "idle"
    /\ sub' = [sub EXCEPT !.pc = "settled",
                          !.created = IF sub.pc = "createIntent"
                                      THEN "rejected" ELSE @,
                          !.interpreted = IF sub.pc = "interpretIntent"
                                          THEN "rejected" ELSE @]
    /\ UNCHANGED <<tasks, transcript, isTranscribing, aiResponse,
                   lastInteraction, now, sel, cmp, fetching>>

\* api.createIntent settles; on success api.interpretIntent is sent
submitInputIntentCreated ==
    /\ sub.pc = "createIntent"
    /\ \/ \E id \in IntentIds :
            /\ sub' = [sub EXCEPT !.pc = "interpretIntent",
                                  !.created = "fulfilled", !.intentId = id]
            /\ UNCHANGED <<storeVars, now, sel, cmp, fetching>>
       \/ \E msg \in ErrorMessages : submitInputCatch(msg)
    /\ UNCHANGED <<offlineVars, workerVars, socketVars>>

\* task.id || `action-${i}`
actionId(task, i) ==
    IF task.id # Null THEN task.id
    ELSE IF i = 1 THEN "action-0" ELSE "action-1"

\* interpretation.suggested_tasks?.map(...) || []
toActions(suggested) ==
    [i \in 1..Len(suggested) |->
        [id |-> actionId(suggested[i], i), title |-> suggested[i].title]]

\* api.interpretIntent settles
submitInputInterpreted ==
    /\ sub.pc = "interpretIntent"
    /\ \/ \E suggested \in SuggestedTasks :
            /\ aiResponse' = Some([actions |-> toActions(suggested),
                                   intentId |-> sub.intentId])
            /\ state' = "responding"
            /\ coreState' = "acting"
            /\ sub' = [sub EXCEPT !.pc = "settled",
                                  !.interpreted = "fulfilled"]
            /\ UNCHANGED <<tasks, transcript, isTranscribing, lastInteraction,
                           error, now, sel, cmp, fetching>>
       \/ \E msg \in ErrorMessages : submitInputCatch(msg)
    /\ UNCHANGED <<offlineVars, workerVars, socketVars>>

startListening ==
    /\ state' = wakeState("listening")
    /\ coreState' = "listening"
    /\ transcript' = ""
    /\ isTranscribing' = TRUE
    /\ lastInteraction' = now
    /\ sub' = Other(sub)
    /\ UNCHANGED <<tasks, aiResponse, error, now, sel, cmp, fetching>>
    /\ UNCHANGED <<offlineVars, workerVars, socketVars>>

stopListening ==
    /\ isTranscribing' = FALSE
    /\ IF trim(transcript) # ""
       THEN /\ submitInputCall
            /\ UNCHANGED <<tasks, transcript, aiResponse, now, sel, cmp,
                           fetching>>
       ELSE /\ state' = "idle"
            /\ coreState' = "idle"
            /\ sub' = Other(sub)
            /\ UNCHANGED <<tasks, transcript, aiResponse, lastInteraction,
                           error, now, sel, cmp, fetching>>
    /\ UNCHANGED <<offlineVars, workerVars, socketVars>>

setTranscript(t) ==
    /\ transcript' = t
    /\ sub' = Other(sub)
    /\ UNCHANGED <<state, coreState, tasks, isTranscribing, aiResponse,
                   lastInteraction, error, now, sel, cmp, fetching>>
    /\ UNCHANGED <<offlineVars, workerVars, socketVars>>

\* aiResponse?.actions.find(a => a.id === id): the first match, None if none
findAction(id) ==
    IF aiResponse = None THEN None
    ELSE LET acts == aiResponse[1].actions
             hits == {k \in 1..Len(acts) : acts[k].id = id}
         IN IF hits = {} THEN None
            ELSE Some(acts[CHOOSE k \in hits : \A j \in hits : k <= j])

\* the first free slot of a table of calls, 0 if all are taken
FreeSlot(table) ==
    LET free == {i \in DOMAIN table : table[i].pc = "idle"}
    IN IF free = {} THEN 0 ELSE CHOOSE i \in free : \A j \in free : i <= j

\* selectAction up to its await: api.createTask is sent if the action exists
selectAction(id) ==
    /\ sub' = Other(sub)
    /\ IF findAction(id) # None
       THEN /\ FreeSlot(sel) # 0
            /\ Len(tasks) < MaxTasks
            /\ sel' = [sel EXCEPT ![FreeSlot(sel)] =
                          [pc |-> "createTask", actionId |-> id,
                           title |-> findAction(id)[1].title,
                           tasks |-> tasks, how |-> Null]]
       ELSE sel' = sel
    /\ UNCHANGED <<storeVars, now, cmp, fetching>>
    /\ UNCHANGED <<offlineVars, workerVars, socketVars>>

\* both branches of selectAction end with the same set(...)
selectActionSet(i, id, how) ==
    /\ tasks' = Append(sel[i].tasks, TaskNode(id, sel[i].title, "active"))
    /\ aiResponse' = None
    /\ state' = "idle"
    /\ coreState' = "acting"
    /\ sel' = [sel EXCEPT ![i] = [SelIdle EXCEPT !.pc = "pulse", !.how = how]]

\* api.createTask settles
selectActionSettled(i) ==
    /\ sel[i].pc = "createTask"
    /\ sub' = Other(sub)
    /\ \/ \E sid \in ServerTaskIds \cup {Null} :
            \* taskResponse.data.id || actionId
            selectActionSet(i, IF sid # Null THEN sid ELSE sel[i].actionId,
                            "fulfilled")
       \/ selectActionSet(i, sel[i].actionId, "rejected")
    /\ UNCHANGED <<transcript, isTranscribing, lastInteraction, error, now,
                   cmp, fetching>>
    /\ UNCHANGED <<offlineVars, workerVars, socketVars>>

\* setTimeout(() => set({ coreState: 'idle' }), 2000)
selectActionTimeout(i) ==
    /\ sel[i].pc = "pulse"
    /\ coreState' = "idle"
    /\ sel' = [sel EXCEPT ![i] = SelIdle]
    /\ sub' = Other(sub)
    /\ UNCHANGED <<state, tasks, transcript, isTranscribing, aiResponse,
                   lastInteraction, error, now, cmp, fetching>>
    /\ UNCHANGED <<offlineVars, workerVars, socketVars>>

\* tasks.map(t => t.id === taskId ? { ...t, status: 'completing' } : t)
markCompleting(ts, id) ==
    [k \in 1..Len(ts) |->
        IF ts[k].id = id THEN [ts[k] EXCEPT !.status = "completing"] ELSE ts[k]]

\* tasks.filter(t => t.id !== taskId)
withoutTask(ts, id) ==
    LET Keep(t) == t.id # id IN SelectSeq(ts, Keep)

\* ids completeTask may be called with: the tasks shown, and one that is not
TaskIds == {tasks[k].id : k \in 1..Len(tasks)} \cup {"zz"}

\* completeTask up to its await: api.completeTask is sent
completeTask(id) ==
    /\ FreeSlot(cmp) # 0
    /\ tasks' = markCompleting(tasks, id)
    /\ cmp' = [cmp EXCEPT ![FreeSlot(cmp)] =
                  [pc |-> "api", taskId |-> id, tasks |-> tasks,
                   failed |-> FALSE]]
    /\ sub' = Other(sub)
    /\ UNCHANGED <<state, coreState, transcript, isTranscribing, aiResponse,
                   lastInteraction, error, now, sel, fetching>>
    /\ UNCHANGED <<offlineVars, workerVars, socketVars>>

\* api.completeTask settles; a failure is logged; setTimeout(..., 800)
completeTaskSettled(i) ==
    /\ cmp[i].pc = "api"
    /\ \E ok \in BOOLEAN :
          cmp' = [cmp EXCEPT ![i].pc = "animating", ![i].failed = ~ok]
    /\ sub' = Other(sub)
    /\ UNCHANGED <<storeVars, now, sel, fetching>>
    /\ UNCHANGED <<offlineVars, workerVars, socketVars>>

\* the 800 ms timer removing the task only when the backend accepted
completeTaskRemove_keepsFailed(i) ==
    /\ cmp[i].pc = "animating"
    /\ tasks' = IF cmp[i].failed THEN tasks
                ELSE withoutTask(cmp[i].tasks, cmp[i].taskId)
    /\ coreState' = "acting"
    /\ cmp' = [cmp EXCEPT ![i] = [CmpIdle EXCEPT !.pc = "pulse"]]
    /\ sub' = Other(sub)
    /\ UNCHANGED <<state, transcript, isTranscribing, aiResponse,
                   lastInteraction, error, now, sel, fetching>>
    /\ UNCHANGED <<offlineVars, workerVars, socketVars>>

\* the 800 ms timer: the task is removed; setTimeout(..., 1000)
completeTaskRemove(i) ==
    /\ cmp[i].pc = "animating"
    /\ tasks' = withoutTask(cmp[i].tasks, cmp[i].taskId)
    /\ coreState' = "acting"
    /\ cmp' = [cmp EXCEPT ![i] = [CmpIdle EXCEPT !.pc = "pulse"]]
    /\ sub' = Other(sub)
    /\ UNCHANGED <<state, transcript, isTranscribing, aiResponse,
                   lastInteraction, error, now, sel, fetching>>
    /\ UNCHANGED <<offlineVars, workerVars, socketVars>>

\* the 1000 ms timer: set({ coreState: 'idle' })
completeTaskIdle(i) ==
    /\ cmp[i].pc = "pulse"
    /\ coreState' = "idle"
    /\ cmp' = [cmp EXCEPT ![i] = CmpIdle]
    /\ sub' = Other(sub)
    /\ UNCHANGED <<state, tasks, transcript, isTranscribing, aiResponse,
                   lastInteraction, error, now, sel, fetching>>
    /\ UNCHANGED <<offlineVars, workerVars, socketVars>>

\* fetchTasks up to its await: api.getTasks is sent
fetchTasks ==
    /\ ~fetching
    /\ fetching' = TRUE
    /\ sub' = Other(sub)
    /\ UNCHANGED <<storeVars, now, sel, cmp>>
    /\ UNCHANGED <<offlineVars, workerVars, socketVars>>

\* status: t.status === 'completed' ? 'completing' : 'active'
toTaskNodes(backendTasks) ==
    [k \in 1..Len(backendTasks) |->
        TaskNode(backendTasks[k].id, backendTasks[k].title,
                 IF backendTasks[k].status = "completed"
                 THEN "completing" ELSE "active")]

\* api.getTasks settles; a failure is logged
fetchTasksSettled ==
    /\ fetching
    /\ fetching' = FALSE
    /\ sub' = Other(sub)
    /\ \/ \E backendTasks \in BackendTasks : tasks' = toTaskNodes(backendTasks)
       \/ tasks' = tasks
    /\ UNCHANGED <<state, coreState, transcript, isTranscribing, aiResponse,
                   lastInteraction, error, now, sel, cmp>>
    /\ UNCHANGED <<offlineVars, workerVars, socketVars>>

showReflection ==
    /\ state' = "reflecting"
    /\ coreState' = "silent"
    /\ sub' = Other(sub)
    /\ UNCHANGED <<tasks, transcript, isTranscribing, aiResponse,
                   lastInteraction, error, now, sel, cmp, fetching>>
    /\ UNCHANGED <<offlineVars, workerVars, socketVars>>

showIdentity ==
    /\ state' = wakeState("identity")
    /\ coreState' = "silent"
    /\ lastInteraction' = now
    /\ sub' = Other(sub)
    /\ UNCHANGED <<tasks, transcript, isTranscribing, aiResponse, error,
                   now, sel, cmp, fetching>>
    /\ UNCHANGED <<offlineVars, workerVars, socketVars>>

dismissOverlay ==
    /\ state' = "idle"
    /\ coreState' = "idle"
    /\ sub' = Other(sub)
    /\ UNCHANGED <<tasks, transcript, isTranscribing, aiResponse,
                   lastInteraction, error, now, sel, cmp, fetching>>
    /\ UNCHANGED <<offlineVars, workerVars, socketVars>>

recordInteraction ==
    /\ lastInteraction' = now
    /\ state' = wakeState(state)
    /\ sub' = Other(sub)
    /\ UNCHANGED <<coreState, tasks, transcript, isTranscribing, aiResponse,
                   error, now, sel, cmp, fetching>>
    /\ UNCHANGED <<offlineVars, workerVars, socketVars>>

\* a test that forgets the canvas must be idle
isSilenceDue_anyState == now - lastInteraction > silenceThreshold

\* timeSinceInteraction > silenceThreshold && state === 'idle'
isSilenceDue == now - lastInteraction > silenceThreshold /\ state = "idle"

checkSilence ==
    /\ IF isSilenceDue
       THEN state' = "silent" /\ coreState' = "silent"
       ELSE UNCHANGED <<state, coreState>>
    /\ sub' = Other(sub)
    /\ UNCHANGED <<tasks, transcript, isTranscribing, aiResponse,
                   lastInteraction, error, now, sel, cmp, fetching>>
    /\ UNCHANGED <<offlineVars, workerVars, socketVars>>

\* time passes
Tick ==
    /\ now + TickMs <= MaxNow
    /\ now' = now + TickMs
    /\ UNCHANGED <<storeVars, sub, sel, cmp, fetching>>
    /\ UNCHANGED <<offlineVars, workerVars, socketVars>>

\* the canvas state machine: input, voice, overlays, silence, task refresh
NextCanvas ==
    \/ \E s \in CanvasStates : setState(s)
    \/ \E e \in {Null} : setError(e)
    \/ openInput
    \/ closeInput
    \/ submitInput
    \/ submitInputIntentCreated
    \/ submitInputInterpreted
    \/ startListening
    \/ stopListening
    \/ \E t \in Transcripts : setTranscript(t)
    \/ fetchTasks
    \/ fetchTasksSettled
    \/ showReflection
    \/ showIdentity
    \/ dismissOverlay
    \/ recordInteraction
    \/ checkSilence
    \/ Tick

SpecCanvas == Init /\ [][NextCanvas]_vars

\* a step of an operation that calls recordInteraction
InteractionRecorded ==
    \/ recordInteraction
    \/ \E s \in CanvasStates : setState(s)
    \/ openInput
    \/ submitInput
    \/ startListening
    \/ stopListening /\ trim(transcript) # ""
    \/ showIdentity

\* C6: the canvas state becomes 'silent' only in a step taken from 'idle'
\* when more than silenceThreshold ms have passed since lastInteraction, and
\* no step of an operation that records an interaction ends in 'silent'.
C6_SilenceOnlyAfterInactivity ==
    [][/\ (state' = "silent" /\ state # "silent")
            => (state = "idle" /\ now - lastInteraction > silenceThreshold)
       /\ InteractionRecorded => state' # "silent"]_vars

\* silence was entered, and an interaction has woken the canvas again
C6_Witness_Silent ==
    /\ state = "idle"
    /\ coreState = "silent"
    /\ lastInteraction = now
    /\ now > silenceThreshold

\* C9: a submitInput call that ran alone ends, when both backend calls
\* succeeded, in 'responding'/'acting' with an aiResponse carrying the created
\* intent's id, and when either failed, in 'idle'/'idle' with an error and
\* with aiResponse and tasks as they were at the call; interpretIntent is
\* sent only after createIntent succeeded.
C9_SubmitOutcome ==
    /\ (sub.pc = "settled" /\ sub.clean)
          => \/ /\ sub.created = "fulfilled" /\ sub.interpreted = "fulfilled"
                /\ state = "responding" /\ coreState = "acting"
                /\ aiResponse # None
                /\ aiResponse[1].intentId = sub.intentId
                /\ sub.intentId \in IntentIds
             \/ /\ "rejected" \in {sub.created, sub.interpreted}
                /\ state = "idle" /\ coreState = "idle"
                /\ error # Null
                /\ Some(aiResponse) = sub.ai0
                /\ Some(tasks) = sub.tasks0
    /\ (sub.pc = "interpretIntent" \/ sub.interpreted # Null)
          => sub.created = "fulfilled"

\* a submitInput that ran alone has failed at interpretIntent while an earlier
\* response and a task list were in the store
C9_Witness_Failed ==
    /\ sub.pc = "settled" /\ sub.clean
    /\ sub.created = "fulfilled" /\ sub.interpreted = "rejected"
    /\ aiResponse # None
    /\ tasks # << >>

\* the task list: suggested actions, completion, refresh
NextTasks ==
    \/ submitInput
    \/ submitInputIntentCreated
    \/ submitInputInterpreted
    \/ \E id \in ActionIds : selectAction(id)
    \/ \E i \in 1..MaxSelect : selectActionSettled(i)
    \/ \E i \in 1..MaxSelect : selectActionTimeout(i)
    \/ \E id \in TaskIds : completeTask(id)
    \/ \E i \in 1..MaxComplete : completeTaskSettled(i)
    \/ \E i \in 1..MaxComplete : completeTaskRemove(i)
    \/ \E i \in 1..MaxComplete : completeTaskIdle(i)
    \/ fetchTasks
    \/ fetchTasksSettled
    \/ dismissOverlay

SpecTasks == Init /\ [][NextTasks]_vars

\* C10: selectAction of an action in aiResponse ends, whether api.createTask
\* succeeds or fails, with one new 'active' task of that action's title
\* appended to tasks (its id the action's id on failure), aiResponse null and
\* state 'idle'; selectAction of an id not in aiResponse changes no store field
\* and sends nothing.
C10_SelectedActionIsAdded ==
    [][/\ \A i \in 1..MaxSelect :
             (sel[i].pc = "createTask" /\ sel'[i].pc = "pulse")
                => /\ \E tid \in ServerTaskIds \cup {sel[i].actionId} :
                         tasks' = Append(tasks,
                                         TaskNode(tid, sel[i].title, "active"))
                   /\ sel'[i].how = "rejected"
                        => tasks'[Len(tasks')].id = sel[i].actionId
                   /\ aiResponse' = None
                   /\ state' = "idle"
       /\ \A id \in ActionIds :
             (selectAction(id) /\ findAction(id) = None)
                => UNCHANGED <<storeVars, sel>>]_vars

\* C1: a canvas mutation applied locally whose backend request failed is in
\* a pending store: a failed completeTask as a 'complete' record for that
\* task, a failed createTask of selectAction as some pending record.
C1_FailedMutationIsQueued ==
    /\ \A i \in 1..MaxComplete :
          (cmp[i].failed /\ \E k \in 1..Len(cmp[i].tasks) :
                               cmp[i].tasks[k].id = cmp[i].taskId)
             => \E r \in pending_tasks :
                   r.id = cmp[i].taskId /\ r.action = "complete"
    /\ \A i \in 1..MaxSelect :
          sel[i].how = "rejected" => pending_tasks # {} \/ pending_intents # {}

\* api.completeTask settles (axios gives up after 30 s) and the timers set
\* with setTimeout fire.  Nothing else is obliged to happen.
FairTasks ==
    /\ \A i \in 1..MaxComplete : WF_vars(completeTaskSettled(i))
    /\ \A i \in 1..MaxComplete : WF_vars(completeTaskRemove(i))
    /\ \A i \in 1..MaxComplete : WF_vars(completeTaskIdle(i))

\* the task list as the backend gives it, and its completion
NextComplete ==
    \/ fetchTasks
    \/ fetchTasksSettled
    \/ \E id \in TaskIds : completeTask(id)
    \/ \E i \in 1..MaxComplete : completeTaskSettled(i)
    \/ \E i \in 1..MaxComplete : completeTaskRemove(i)
    \/ \E i \in 1..MaxComplete : completeTaskIdle(i)
    \/ recordInteraction
    \/ dismissOverlay

SpecComplete == Init /\ [][NextComplete]_vars /\ FairTasks

\* ids a task of the list can have
ShownTaskIds == {"s1", "s2", "a1", "action-1"}

\* the task is in the list
Shown(id) == \E k \in 1..Len(tasks) : tasks[k].id = id

\* a completeTask call for the task, made while it was in the list, waits
\* for the backend or for its 800 ms timer
Completing(id) ==
    \E i \in 1..MaxComplete :
        /\ cmp[i].pc \in {"api", "animating"}
        /\ cmp[i].taskId = id
        /\ \E k \in 1..Len(cmp[i].tasks) : cmp[i].tasks[k].id = id

\* C11: completeTask of a task in the list marks it 'completing' in the same
\* step, before api.completeTask settles; the task is eventually out of the
\* list whether the call succeeds or fails; after the removal coreState is
\* eventually 'idle'.
C11_CompleteIsOptimistic ==
    /\ [][\A id \in ShownTaskIds :
             (Shown(id) /\ completeTask(id))
                => /\ \A k \in 1..Len(tasks') :
                         tasks'[k].id = id => tasks'[k].status = "completing"
                   /\ \E i \in 1..MaxComplete :
                         cmp'[i].pc = "api" /\ cmp'[i].taskId = id]_vars
    /\ \A id \in ShownTaskIds : Completing(id) ~> ~Shown(id)
    /\ \A i \in 1..MaxComplete :
          (cmp[i].pc = "pulse") ~> (coreState = "idle")

\* C11 witness: api.completeTask failed for a task that is in the list and
\* marked 'completing'
C11_Witness_FailedCompleting ==
    \E i \in 1..MaxComplete :
        /\ cmp[i].pc = "animating"
        /\ cmp[i].failed
        /\ \E k \in 1..Len(tasks) :
              tasks[k].id = cmp[i].taskId /\ tasks[k].status = "completing"

(***************************************************************************)
(* Offline queue: OfflineStorage, useOffline, and the service worker's     *)
(* background sync                                                         *)
(***************************************************************************)
\* ids of the tasks whose actions are queued, in key order
QueuedTaskIds == <<"t1", "t2">>
TaskActions == {"start", "complete"}
IntentTexts == {"call mum"}

\* store.getAll(): the records in key order
RECURSIVE inKeyOrder(_, _, _)
inKeyOrder(records, keys, k) ==
    IF k > Len(keys) THEN << >>
    ELSE LET here == {r \in records : r.id = keys[k]}
         IN (IF here = {} THEN << >> ELSE <<CHOOSE r \in here : TRUE>>)
            \o inKeyOrder(records, keys, k + 1)

getPendingIntents ==
    inKeyOrder(pending_intents, [k \in 1..MaxSaves |-> k], 1)

getPendingTasks == inKeyOrder(pending_tasks, QueuedTaskIds, 1)

\* store.delete(key)
deleteKey(records, key) == {r \in records : r.id # key}

\* store.put(record): replaces the record stored under the same key
putRecord(records, record) == deleteKey(records, record.id) \cup {record}

\* a request made now is answered with success
RequestSucceeds == online /\ serverUp

\* saveOfflineIntent -> offlineStorage.addPendingIntent: store.add
saveOfflineIntent(text) ==
    /\ saves < MaxSaves
    /\ pending_intents' = pending_intents \cup
          {[id |-> nextKey, text |-> text, context |-> Null,
            createdAt |-> saves + 1]}
    /\ nextKey' = nextKey + 1
    /\ saves' = saves + 1
    /\ UNCHANGED <<online, serverUp, acked, pending_tasks, sync, syncTags,
                   swIntents, swTasks>>
    /\ UNCHANGED <<canvasVars, workerVars, socketVars>>

\* saveOfflineTaskAction -> offlineStorage.addPendingTask: store.put
saveOfflineTaskAction(taskId, action) ==
    /\ saves < MaxSaves
    /\ pending_tasks' = putRecord(pending_tasks,
          [id |-> taskId, action |-> action, data |-> None,
           createdAt |-> saves + 1])
    /\ saves' = saves + 1
    /\ UNCHANGED <<online, serverUp, acked, pending_intents, nextKey, sync,
                   syncTags, swIntents, swTasks>>
    /\ UNCHANGED <<canvasVars, workerVars, socketVars>>

\* a request as the backend sees it; body: None for undefined; createdAt: of
\* the pending record the request was made for
Request(from, endpoint, body, record) ==
    [from |-> from, endpoint |-> endpoint, body |-> body,
     createdAt |-> record.createdAt]

\* record.data, undefined (None) when the record has no such field
dataOf(record) == IF "data" \in DOMAIN record THEN record.data ELSE None

\* api.post('/orbit/process', { text, context }) under baseURL '/api'
pageIntentRequest(intent) ==
    Request("page", <<"api", "orbit", "process">>,
            Some([text |-> intent.text, context |-> intent.context]), intent)

\* api.post(`/executor/tasks/${task.id}/${task.action}`, task.data)
pageTaskRequest(task) ==
    Request("page", <<"api", "executor", "tasks", task.id, task.action>>,
            task.data, task)

\* syncPendingData from its start, or once its intents are through: the
\* records read and the first request sent
syncFrom(intents) ==
    IF intents # << >>
    THEN [pc |-> "intents", intents |-> intents, tasks |-> << >>]
    ELSE IF getPendingTasks # << >>
         THEN [pc |-> "tasks", intents |-> << >>, tasks |-> getPendingTasks]
         ELSE SyncIdle

\* syncPendingData up to its first request: returns at once when offline
syncPendingData ==
    /\ FreeSlot(sync) # 0
    /\ IF ~online
       THEN UNCHANGED sync
       ELSE sync' = [sync EXCEPT ![FreeSlot(sync)] = syncFrom(getPendingIntents)]
    /\ UNCHANGED <<online, serverUp, acked, pending_intents, pending_tasks,
                   nextKey, saves, syncTags, swIntents, swTasks>>
    /\ UNCHANGED <<canvasVars, workerVars, socketVars>>

\* the window's 'online' event: handleOnline calls syncPendingData
handleOnline ==
    /\ ~online
    /\ online' = TRUE
    /\ FreeSlot(sync) # 0
    /\ sync' = [sync EXCEPT ![FreeSlot(sync)] = syncFrom(getPendingIntents)]
    /\ UNCHANGED <<serverUp, acked, pending_intents, pending_tasks, nextKey,
                   saves, syncTags, swIntents, swTasks>>
    /\ UNCHANGED <<canvasVars, workerVars, socketVars>>

\* if (intent.id): a key of 0 is falsy
truthy(id) == id # 0

\* the request for the first intent of call k settles; on success the record
\* is removed; then the next request is sent
syncIntentSettled(k) ==
    /\ sync[k].pc = "intents"
    /\ LET intent == Head(sync[k].intents)
           rest == Tail(sync[k].intents)
       IN /\ IF RequestSucceeds
             THEN /\ acked' = acked (+) SetToBag({pageIntentRequest(intent)})
                  /\ pending_intents' =
                        IF truthy(intent.id)
                        THEN deleteKey(pending_intents, intent.id)
                        ELSE pending_intents
             ELSE UNCHANGED <<acked, pending_intents>>
          /\ sync' = [sync EXCEPT ![k] = syncFrom(rest)]
    /\ UNCHANGED <<online, serverUp, pending_tasks, nextKey, saves, syncTags,
                   swIntents, swTasks>>
    /\ UNCHANGED <<canvasVars, workerVars, socketVars>>

\* the request for the first task of call k settles
syncTaskSettled(k) ==
    /\ sync[k].pc = "tasks"
    /\ LET task == Head(sync[k].tasks)
           rest == Tail(sync[k].tasks)
       IN /\ IF RequestSucceeds
             THEN /\ acked' = acked (+) SetToBag({pageTaskRequest(task)})
                  /\ pending_tasks' = deleteKey(pending_tasks, task.id)
             ELSE UNCHANGED <<acked, pending_tasks>>
          /\ sync' = [sync EXCEPT ![k] =
                         IF rest = << >> THEN SyncIdle
                         ELSE [sync[k] EXCEPT !.tasks = rest]]
    /\ UNCHANGED <<online, serverUp, pending_intents, nextKey, saves,
                   syncTags, swIntents, swTasks>>
    /\ UNCHANGED <<canvasVars, workerVars, socketVars>>

\* the window's 'offline' event
handleOffline ==
    /\ online
    /\ online' = FALSE
    /\ UNCHANGED <<serverUp, acked, pending_intents, pending_tasks, nextKey,
                   saves, sync, syncTags, swIntents, swTasks>>
    /\ UNCHANGED <<canvasVars, workerVars, socketVars>>

\* the backend starts or stops answering with success
serverChange ==
    /\ serverUp' = ~serverUp
    /\ UNCHANGED <<online, acked, pending_intents, pending_tasks, nextKey,
                   saves, sync, syncTags, swIntents, swTasks>>
    /\ UNCHANGED <<canvasVars, workerVars, socketVars>>

\* registerSync, run when a component using the hook mounts
registerSync ==
    /\ syncTags' = {"sync-intents", "sync-tasks"}
    /\ UNCHANGED <<online, serverUp, acked, pending_intents, pending_tasks,
                   nextKey, saves, sync, swIntents, swTasks>>
    /\ UNCHANGED <<canvasVars, workerVars, socketVars>>

\* fetch('/api/v1/orbit/process', { body: JSON.stringify(intent.data) })
swIntentRequest(intent) ==
    Request("sw", <<"api", "v1", "orbit", "process">>, dataOf(intent), intent)

\* fetch(`/api/v1/executor/tasks/${task.id}/${task.action}`, { body: task.data })
swTaskRequest(task) ==
    Request("sw", <<"api", "v1", "executor", "tasks", task.id, task.action>>,
            dataOf(task), task)

\* the 'sync' event, delivered once per registered tag while online:
\* syncOfflineIntents or syncOfflineTasks reads its store and sends the first
\* request
swSync(tag) ==
    /\ online
    /\ tag \in syncTags
    /\ syncTags' = syncTags \ {tag}
    /\ IF tag = "sync-intents"
       THEN /\ swIntents.pc = "idle"
            /\ swIntents' = IF getPendingIntents = << >> THEN SyncIdle
                            ELSE [pc |-> "intents",
                                  intents |-> getPendingIntents,
                                  tasks |-> << >>]
            /\ UNCHANGED swTasks
       ELSE /\ swTasks.pc = "idle"
            /\ swTasks' = IF getPendingTasks = << >> THEN SyncIdle
                          ELSE [pc |-> "tasks", intents |-> << >>,
                                tasks |-> getPendingTasks]
            /\ UNCHANGED swIntents
    /\ UNCHANGED <<online, serverUp, acked, pending_intents, pending_tasks,
                   nextKey, saves, sync>>
    /\ UNCHANGED <<canvasVars, workerVars, socketVars>>

\* syncOfflineIntents: the fetch for the first intent settles; the record is
\* deleted if response.ok
swIntentSettled ==
    /\ swIntents.pc = "intents"
    /\ LET intent == Head(swIntents.intents)
           rest == Tail(swIntents.intents)
       IN /\ IF RequestSucceeds
             THEN /\ acked' = acked (+) SetToBag({swIntentRequest(intent)})
                  /\ pending_intents' = deleteKey(pending_intents, intent.id)
             ELSE UNCHANGED <<acked, pending_intents>>
          /\ swIntents' = IF rest = << >> THEN SyncIdle
                          ELSE [swIntents EXCEPT !.intents = rest]
    /\ UNCHANGED <<online, serverUp, pending_tasks, nextKey, saves, sync,
                   syncTags, swTasks>>
    /\ UNCHANGED <<canvasVars, workerVars, socketVars>>

\* syncOfflineTasks: the fetch for the first task settles
swTaskSettled ==
    /\ swTasks.pc = "tasks"
    /\ LET task == Head(swTasks.tasks)
           rest == Tail(swTasks.tasks)
       IN /\ IF RequestSucceeds
             THEN /\ acked' = acked (+) SetToBag({swTaskRequest(task)})
                  /\ pending_tasks' = deleteKey(pending_tasks, task.id)
             ELSE UNCHANGED <<acked, pending_tasks>>
          /\ swTasks' = IF rest = << >> THEN SyncIdle
                        ELSE [swTasks EXCEPT !.tasks = rest]
    /\ UNCHANGED <<online, serverUp, pending_intents, nextKey, saves, sync,
                   syncTags, swIntents>>
    /\ UNCHANGED <<canvasVars, workerVars, socketVars>>

\* the page alone: the hook's queue and its foreground sync
NextPage ==
    \/ \E text \in IntentTexts : saveOfflineIntent(text)
    \/ \E k \in 1..Len(QueuedTaskIds), action \in TaskActions :
          saveOfflineTaskAction(QueuedTaskIds[k], action)
    \/ syncPendingData
    \/ handleOnline
    \/ handleOffline
    \/ \E k \in 1..MaxSyncs : syncIntentSettled(k)
    \/ \E k \in 1..MaxSyncs : syncTaskSettled(k)
    \/ serverChange

SpecPage == Init /\ [][NextPage]_vars

\* the steps of the service worker's background sync
NextWorkerSync ==
    \/ \E tag \in {"sync-intents", "sync-tasks"} : swSync(tag)
    \/ swIntentSettled
    \/ swTaskSettled

\* page and service worker
NextOffline ==
    \/ NextPage
    \/ registerSync
    \/ NextWorkerSync

SpecOffline == Init /\ [][NextOffline]_vars

\* Requests settle (axios gives up after 30 s), and the browser delivers a
\* registered sync event while the device is online.  Nothing obliges the
\* user, the network or the backend.
FairOffline ==
    /\ \A k \in 1..MaxSyncs : WF_vars(syncIntentSettled(k))
    /\ \A k \in 1..MaxSyncs : WF_vars(syncTaskSettled(k))
    /\ \A tag \in {"sync-intents", "sync-tasks"} :
          WF_vars(swSync(tag))
    /\ WF_vars(swIntentSettled)
    /\ WF_vars(swTaskSettled)

SpecOfflineFair == SpecOffline /\ FairOffline

\* the pending record written by the c-th save is in its store
Queued(c) ==
    \/ \E r \in pending_intents : r.createdAt = c
    \/ \E r \in pending_tasks : r.createdAt = c

\* the backend has answered a request made for that record with success
Acked(c) == \E q \in BagToSet(acked) : q.createdAt = c

\* C2: if the device is eventually online for good and the backend then
\* accepts requests, every record placed in a pending store is eventually
\* sent to the backend and removed from the store.
C2_QueuedIsEventuallySent ==
    \A c \in 1..MaxSaves :
        (<>[](online /\ serverUp))
            => [](Queued(c) => <>(Acked(c) /\ ~Queued(c)))

\* the backend has answered with success a request for this intent record
AckedIntent(r) == \E q \in BagToSet(acked) : q.createdAt = r.createdAt

\* the backend has answered with success a request that carries this task
\* record's id and action
AckedTask(r) ==
    \E q \in BagToSet(acked) :
        /\ q.endpoint[Len(q.endpoint) - 1] = r.id
        /\ q.endpoint[Len(q.endpoint)] = r.action

\* C3: a sync removes a pending record only once the backend has answered
\* the request for that record with success; a record whose request failed
\* stays in its store, and the sync goes on with the records after it.
C3_RemovedOnlyAfterSuccess ==
    [][/\ saves' = saves =>
             /\ \A r \in pending_intents \ pending_intents' : AckedIntent(r)'
             /\ \A r \in pending_tasks \ pending_tasks' : AckedTask(r)'
       /\ \A k \in 1..MaxSyncs :
             (~RequestSucceeds /\ (syncIntentSettled(k) \/ syncTaskSettled(k)))
                => /\ pending_intents' = pending_intents
                   /\ pending_tasks' = pending_tasks
                   /\ sync[k].pc = "intents"
                        => sync'[k] = syncFrom(Tail(sync[k].intents))
                   /\ (sync[k].pc = "tasks" /\ Len(sync[k].tasks) > 1)
                        => sync'[k].tasks = Tail(sync[k].tasks)]_vars

\* the task record's action is in the pending queue
PendingAction(r) ==
    \E p \in pending_tasks : p.id = r.id /\ p.action = r.action

\* C14: no task action saved for later sync is lost: a saved action stays in
\* pending_tasks until a request for its record has been answered with
\* success, also when another action for the same task id is saved before
\* the next sync.
C14_NoTaskActionLost ==
    [][\A r \in pending_tasks :
          ~PendingAction(r)' => Acked(r.createdAt)']_vars

\* the request syncOfflineIntents has in flight
swIntentInFlight == swIntentRequest(Head(swIntents.intents))

\* C15: for a pending intent the service worker's syncOfflineIntents sends
\* the same endpoint and the same body (the record's text and context) as
\* the page's syncPendingData sends for that record.
C15_WorkerSendsWhatPageSends ==
    swIntents.pc = "intents" =>
        LET intent == Head(swIntents.intents)
        IN /\ swIntentInFlight.endpoint = pageIntentRequest(intent).endpoint
           /\ swIntentInFlight.body = pageIntentRequest(intent).body

\* the requests for the intent record of the c-th save that reached the
\* backend, as a bag
IntentPosts(c) ==
    [q \in {q \in BagToSet(acked) :
               q.createdAt = c /\ q.endpoint[Len(q.endpoint)] = "process"}
       |-> CopiesIn(q, acked)]

\* C16: each queued intent is delivered to the backend at most once, under
\* any interleaving of the syncs that read the pending store.
C16_IntentPostedAtMostOnce ==
    \A c \in 1..MaxSaves : BagCardinality(IntentPosts(c)) <= 1

(***************************************************************************)
(* Service worker: the fetch listener and its strategies, sw.js            *)
(***************************************************************************)
\* response.ok
ok(status) == status \in 200..299

\* url.pathname.startsWith('/api/')
startsWithApi(pathname) ==
    /\ Len(pathname) >= 2
    /\ pathname[1] = "/api"
    /\ pathname[2] \notin Extensions

\* url.pathname.includes(route)
includes(pathname, route) ==
    \E k \in 0..(Len(pathname) - Len(route)) :
        SubSeq(pathname, k + 1, k + Len(route)) = route

isOfflineCapable(pathname) ==
    \E route \in OFFLINE_CAPABLE_ROUTES : includes(pathname, route)

\* /\.(js|css|png|jpg|jpeg|gif|svg|ico|woff|woff2|ttf|eot)$/i.test(pathname)
isStaticAsset(pathname) == pathname[Len(pathname)] \in StaticExtensions

\* caches.match: the first cache, in the order the caches were created, that
\* holds the URL (no URL is ever in both the dynamic and the offline cache)
match(url) ==
    LET hits(name) == {e \in caches[name] : e.url = url}
        first(name) == CHOOSE e \in hits(name) : TRUE
    IN IF hits(STATIC_CACHE) # {} THEN Some(first(STATIC_CACHE))
       ELSE IF hits(DYNAMIC_CACHE) # {} THEN Some(first(DYNAMIC_CACHE))
       ELSE IF hits(OFFLINE_CACHE) # {} THEN Some(first(OFFLINE_CACHE))
       ELSE None

\* cache.put(request, response.clone()) on caches.open(name)
put(name, url, response) ==
    [caches EXCEPT ![name] =
        {e \in @ : e.url # url} \cup {Entry(url, response.status, response.body)}]

\* a response as the network or a cache gives it: no X-Orbit-Offline header
plain(r) == Response(r.status, r.body, FALSE)

\* what a strategy comes to: the response (None when the handler throws or
\* resolves to undefined) and the caches it leaves
Outcome(response, cs) == [response |-> response, caches |-> cs]

\* cacheFirst storing whatever the network answered
cacheFirst_storesErrors(request, net) ==
    IF net # None
    THEN Outcome(Some(plain(net[1])), put(STATIC_CACHE, request.url, net[1]))
    ELSE Outcome(Some(Response(503, "Offline", FALSE)), caches)

\* cacheFirst after its caches.match missed; net is what fetch came to
cacheFirst(request, net) ==
    IF net # None
    THEN Outcome(Some(plain(net[1])),
                 IF ok(net[1].status)
                 THEN put(STATIC_CACHE, request.url, net[1]) ELSE caches)
    ELSE Outcome(Some(Response(503, "Offline", FALSE)), caches)

networkFirst(request, net) ==
    IF net # None
    THEN Outcome(Some(plain(net[1])),
                 IF ok(net[1].status)
                 THEN put(DYNAMIC_CACHE, request.url, net[1]) ELSE caches)
    ELSE IF match(request.url) # None
    THEN Outcome(Some(plain(match(request.url)[1])), caches)
    ELSE Outcome(None, caches)

networkFirstWithOfflineFallback(request, net) ==
    IF net # None
    THEN Outcome(Some(plain(net[1])),
                 IF ok(net[1].status)
                 THEN put(DYNAMIC_CACHE, request.url, net[1]) ELSE caches)
    ELSE IF match(request.url) # None
    THEN Outcome(Some(plain(match(request.url)[1])), caches)
    ELSE IF match(Url(<<"/offline", ".html">>, "")) # None
    THEN Outcome(Some(plain(match(Url(<<"/offline", ".html">>, ""))[1])),
                 caches)
    ELSE Outcome(None, caches)

\* the response built from the cached copy: headers.set('X-Orbit-Offline', 'true')
offlineCopy_noHeader(cached) == Response(cached.status, cached.body, FALSE)

offlineCopy(cached) == Response(cached.status, cached.body, TRUE)

handleApiRequest(request, net) ==
    IF net # None
    THEN Outcome(Some(plain(net[1])),
                 IF ok(net[1].status) /\ isOfflineCapable(request.url.pathname)
                 THEN put(OFFLINE_CACHE, request.url, net[1]) ELSE caches)
    ELSE IF match(request.url) # None
    THEN Outcome(Some(offlineCopy(match(request.url)[1])), caches)
    ELSE Outcome(Some(Response(503, "{error:offline}", FALSE)), caches)

\* the branch of the fetch listener a request takes
strategy(request) ==
    IF request.method # "GET" THEN "none"
    ELSE IF startsWithApi(request.url.pathname) THEN "handleApiRequest"
    ELSE IF isStaticAsset(request.url.pathname) THEN "cacheFirst"
    ELSE IF request.mode = "navigate" THEN "networkFirstWithOfflineFallback"
    ELSE "networkFirst"

\* an answered request: handled (respondWith was called), fetched (the worker
\* called fetch), net (what fetch came to), response
Exchange(request, handled, fetched, net, response) ==
    [request |-> request, handled |-> handled, fetched |-> fetched,
     net |-> net, response |-> response]

\* the 'fetch' event up to the handler's first wait for the network
fetchEvent(request) ==
    /\ IF strategy(request) = "none"
       THEN /\ last' = Some(Exchange(request, FALSE, FALSE, None, None))
            /\ UNCHANGED <<caches, fetches, received>>
       ELSE IF strategy(request) = "cacheFirst" /\ match(request.url) # None
       THEN /\ last' = Some(Exchange(request, TRUE, FALSE, None,
                                     Some(plain(match(request.url)[1]))))
            /\ UNCHANGED <<caches, fetches, received>>
       ELSE /\ FreeSlot(fetches) # 0
            /\ fetches' = [fetches EXCEPT ![FreeSlot(fetches)] =
                              [pc |-> "fetch", request |-> Some(request)]]
            /\ UNCHANGED <<caches, last, received>>
    /\ UNCHANGED pushVars
    /\ UNCHANGED <<canvasVars, offlineVars, socketVars>>

\* fetch(request) settles and the handler runs to its end
fetchSettled(i, net) ==
    /\ fetches[i].pc = "fetch"
    /\ LET request == fetches[i].request[1]
           s == strategy(request)
           out == IF s = "handleApiRequest" THEN handleApiRequest(request, net)
                  ELSE IF s = "cacheFirst" THEN cacheFirst(request, net)
                  ELSE IF s = "networkFirstWithOfflineFallback"
                  THEN networkFirstWithOfflineFallback(request, net)
                  ELSE networkFirst(request, net)
       IN /\ caches' = out.caches
          /\ last' = Some(Exchange(request, TRUE, TRUE, net, out.response))
          /\ received' = IF /\ net # None
                            /\ ok(net[1].status)
                            /\ request.url \in CoreUrls
                         THEN received \cup {request.url} ELSE received
    /\ fetches' = [fetches EXCEPT ![i] = FetchIdle]
    /\ UNCHANGED pushVars
    /\ UNCHANGED <<canvasVars, offlineVars, socketVars>>

NextFetch ==
    \/ \E request \in Requests : fetchEvent(request)
    \/ \E i \in 1..MaxFetches, net \in NetworkOutcomes : fetchSettled(i, net)

SpecFetch == Init /\ [][NextFetch]_vars

\* a handler waiting for the network with this request settles in this step
Settling(request) ==
    \E i \in 1..MaxFetches :
        /\ fetches[i] = [pc |-> "fetch", request |-> Some(request)]
        /\ fetches'[i].pc = "idle"

\* C7: every GET under /api/ is answered network-first: with the network's
\* response whenever fetch completes, whatever its status; when fetch throws,
\* with the cached copy carrying X-Orbit-Offline: true, or, if there is no
\* cached copy, with status 503 and a JSON body whose error is 'offline'.
C7_ApiNetworkFirst ==
    [][\A request \in Requests :
          (request.method = "GET" /\ startsWithApi(request.url.pathname))
             => /\ fetchEvent(request) => fetches' # fetches
                /\ Settling(request)
                     => /\ last'[1].request = request
                        /\ last'[1].fetched
                        /\ last'[1].net # None
                             => last'[1].response = Some(plain(last'[1].net[1]))
                        /\ (last'[1].net = None /\ match(request.url) # None)
                             => last'[1].response =
                                   Some(Response(match(request.url)[1].status,
                                                 match(request.url)[1].body,
                                                 TRUE))
                        /\ (last'[1].net = None /\ match(request.url) = None)
                             => last'[1].response =
                                   Some(Response(503, "{error:offline}", FALSE))
      ]_vars

\* C7 witness: a GET under /api/ whose fetch threw was answered with the
\* cached copy, marked as offline data
C7_Witness_OfflineCopy ==
    /\ last # None
    /\ startsWithApi(last[1].request.url.pathname)
    /\ last[1].fetched
    /\ last[1].net = None
    /\ last[1].response # None
    /\ last[1].response[1].offline
    /\ last[1].response[1].status = 200

\* C4: once the page has got an ok network response for GET /api/tasks/ or
\* GET /api/intent/?limit=n, the same GET made while fetch throws is answered
\* with data fetched before, not with a 503.
C4_CoreDataServedOffline ==
    (/\ last # None
     /\ last[1].request.method = "GET"
     /\ last[1].request.url \in received
     /\ last[1].fetched
     /\ last[1].net = None)
        => /\ last[1].response # None
           /\ last[1].response[1].status # 503
           /\ last[1].response[1].body \in Bodies

\* the request is answered cache-first in this step: from the cache and
\* without the network when a cached entry exists; on a miss from the
\* network, the static cache taking the response only if it is ok; with a
\* 503 'Offline' when that fetch throws
ServedCacheFirst(request) ==
    /\ (fetchEvent(request) /\ match(request.url) # None)
          => /\ fetches' = fetches
             /\ last' = Some(Exchange(request, TRUE, FALSE, None,
                                      Some(plain(match(request.url)[1]))))
    /\ (fetchEvent(request) /\ match(request.url) = None)
          => fetches' # fetches
    /\ Settling(request)
          => /\ last'[1].request = request
             /\ last'[1].net # None
                  => /\ last'[1].response = Some(plain(last'[1].net[1]))
                     /\ caches' # caches
                          => /\ ok(last'[1].net[1].status)
                             /\ caches' = put(STATIC_CACHE, request.url,
                                              last'[1].net[1])
             /\ last'[1].net = None
                  => /\ last'[1].response = Some(Response(503, "Offline", FALSE))
                     /\ caches' = caches

\* C8: every GET for a path ending in a static extension is answered
\* cache-first.
C8_StaticCacheFirst ==
    [][\A request \in Requests :
          (request.method = "GET" /\ isStaticAsset(request.url.pathname))
             => ServedCacheFirst(request)]_vars

\* C8, amended: every GET for a path that ends in a static extension and is
\* not under /api/ is answered cache-first, and an ok response fetched on a
\* miss is stored in the static cache.
C8_StaticOutsideApiCacheFirst ==
    [][\A request \in Requests :
          (/\ request.method = "GET"
           /\ isStaticAsset(request.url.pathname)
           /\ ~startsWithApi(request.url.pathname))
             => /\ ServedCacheFirst(request)
                /\ (Settling(request) /\ last'[1].net # None
                      /\ ok(last'[1].net[1].status))
                     => caches' = put(STATIC_CACHE, request.url,
                                      last'[1].net[1])]_vars

\* C8 witness: a static asset outside /api/ was answered from the cache with
\* no network request
C8_Witness_CacheHit ==
    /\ last # None
    /\ isStaticAsset(last[1].request.url.pathname)
    /\ ~startsWithApi(last[1].request.url.pathname)
    /\ last[1].handled
    /\ ~last[1].fetched
    /\ last[1].response # None
    /\ \E e \in caches[STATIC_CACHE] :
          e.url = last[1].request.url /\ last[1].response[1] = plain(e)

(***************************************************************************)
(* Service worker: the push listener, sw.js                                *)
(***************************************************************************)
\* data.priority, Null when the payload has none
priorityOf(data) == IF data = None THEN Null ELSE data[1].priority

\* the 'push' event.  showNotification displays only with permission granted
\* (it rejects otherwise).
push(data) ==
    /\ Len(shown) < MaxPushes
    /\ IF priorityOf(data) = "low" /\ permission = "granted"
       THEN shown' = shown
       ELSE shown' = Append(shown,
               [title |-> IF data = None THEN "ORBIT" ELSE data[1].title,
                priority |-> priorityOf(data),
                silent |-> priorityOf(data) # "urgent",
                requireInteraction |-> priorityOf(data) = "urgent",
                displayed |-> permission = "granted"])
    /\ UNCHANGED <<permission, fetchVars>>
    /\ UNCHANGED <<canvasVars, offlineVars, socketVars>>

\* the user grants or withdraws the permission to notify
permissionChange(p) ==
    /\ p # permission
    /\ permission' = p
    /\ UNCHANGED <<shown, fetchVars>>
    /\ UNCHANGED <<canvasVars, offlineVars, socketVars>>

NextPush ==
    \/ \E data \in PushData : push(data)
    \/ \E p \in Permissions : permissionChange(p)

SpecPush == Init /\ [][NextPush]_vars

\* C5: the push listener displays a notification only for a push of
\* priority 'urgent'.
C5_OnlyUrgentIsShown ==
    \A k \in 1..Len(shown) : shown[k].displayed => shown[k].priority = "urgent"

(***************************************************************************)
(* WebSocketService, websocket.ts                                          *)
(***************************************************************************)
\* connect, as useWebSocket calls it on mount; without a token no socket
connect ==
    /\ socket = Null
    /\ socket' \in {Null, "open"}
    /\ UNCHANGED <<handlers, subs, delivered>>
    /\ UNCHANGED <<canvasVars, offlineVars, workerVars>>

disconnect ==
    /\ socket' = Null
    /\ UNCHANGED <<handlers, subs, delivered>>
    /\ UNCHANGED <<canvasVars, offlineVars, workerVars>>

\* on(eventType, handler): the handler is pushed; the closure returned keeps
\* eventType and handler
on(eventType, handler) ==
    /\ Len(subs) < MaxSubs
    /\ handlers' = [handlers EXCEPT ![eventType] = Append(@, handler)]
    /\ subs' = Append(subs, [eventType |-> eventType, handler |-> handler,
                             live |-> TRUE])
    /\ UNCHANGED <<socket, delivered>>
    /\ UNCHANGED <<canvasVars, offlineVars, workerVars>>

\* handlers.indexOf(handler): the first position holding it, 0 for -1
indexOf(hs, handler) ==
    LET at == {k \in 1..Len(hs) : hs[k] = handler}
    IN IF at = {} THEN 0 ELSE CHOOSE k \in at : \A j \in at : k <= j

\* handlers.splice(index, 1)
splice(hs, index) == SubSeq(hs, 1, index - 1) \o SubSeq(hs, index + 1, Len(hs))

\* the function returned by the n-th on() call is called
unsubscribe(n) ==
    /\ n \in 1..Len(subs)
    /\ LET eventType == subs[n].eventType
           index == indexOf(handlers[eventType], subs[n].handler)
       IN handlers' = IF index > 0
                      THEN [handlers EXCEPT ![eventType] = splice(@, index)]
                      ELSE handlers
    /\ subs' = [subs EXCEPT ![n].live = FALSE]
    /\ UNCHANGED <<socket, delivered>>
    /\ UNCHANGED <<canvasVars, offlineVars, workerVars>>

\* dispatchEvent: the handlers of the event's type, then those of '*'
dispatchEvent(type) == handlers[type] \o handlers["*"]

\* the socket's 'orbit_event' listener
orbit_event(type) ==
    /\ socket = "open"
    /\ delivered' = dispatchEvent(type)
    /\ UNCHANGED <<socket, handlers, subs>>
    /\ UNCHANGED <<canvasVars, offlineVars, workerVars>>

NextSocket ==
    \/ connect
    \/ disconnect
    \/ \E eventType \in SubscribedTypes, handler \in Handlers :
          on(eventType, handler)
    \/ \E n \in 1..MaxSubs : unsubscribe(n)
    \/ \E type \in EventTypes : orbit_event(type)

SpecSocket == Init /\ [][NextSocket]_vars

\* the handlers of the on() calls for this type whose unsubscribe function
\* has not been called, in the order of the calls
RECURSIVE Subscribed(_, _)
Subscribed(eventType, n) ==
    IF n = 0 THEN << >>
    ELSE IF subs[n].eventType = eventType /\ subs[n].live
    THEN Append(Subscribed(eventType, n - 1), subs[n].handler)
    ELSE Subscribed(eventType, n - 1)

\* how often the handler occurs in the sequence
Count(hs, handler) == Cardinality({k \in 1..Len(hs) : hs[k] = handler})

\* C12: an orbit_event of type T calls, once each and in subscription order,
\* the handlers subscribed to T and then those subscribed to '*', and no
\* other.
C12_DeliveredInSubscriptionOrder ==
    [][\A type \in EventTypes :
          orbit_event(type)
             => delivered' = Subscribed(type, Len(subs))
                                \o Subscribed("*", Len(subs))]_vars

\* C13: the handlers kept are those of the on() calls whose unsubscribe
\* function has not been called: calling it removes that subscription and no
\* other, also when the same function is subscribed twice and when it is
\* called a second time.
C13_UnsubscribeRemovesOnlyItsOwn ==
    \A eventType \in SubscribedTypes, handler \in Handlers :
        Count(handlers[eventType], handler)
            = Count(Subscribed(eventType, Len(subs)), handler)

=============================================================================
